---- MODULE Spec2Model ----
(***************************************************************************)
(* Model of the push-to-talk transcription utility.                        *)
(*                                                                         *)
(* Two orchestration entry points exist in the sources:                    *)
(*   - the UI-driven pipeline (src/unnamed/part_000), where the webview    *)
(*     registers the global shortcut, records, transcribes and pastes;     *)
(*   - the backend-driven variant (src/src/main.ts), where the webview     *)
(*     only stores settings and mirrors status events of the native shell. *)
(* Both use src/src/settings.ts; the UI-driven one uses                    *)
(* src/src/transcriber.ts and the AudioRecorder of ./recorder.             *)
(*                                                                         *)
(* JavaScript runs handlers to their next await without interruption, so   *)
(* every action below is one such run: from an event (or the resolution of *)
(* the awaited promise) to the next await (or the handler's end).          *)
(*                                                                         *)
(* Strings are sequences of one-character or one-token strings, so that    *)
(* trim(), substring() and join('+') are computed, not assumed.            *)
(***************************************************************************)
EXTENDS Integers, Sequences, FiniteSets, TLC

VARIABLES
    file,            \* settings.json in the app data directory
    settings,        \* let settings: Settings (an object: ordered key/value pairs)
    loaded,          \* whether `settings` has been assigned by init
    isRecording,     \* let isRecording = false
    currentShortcut, \* let currentShortcut: string | null  ({} is null)
    bindings,        \* shortcuts the OS has bound to the press/release callback
    recActive,       \* AudioRecorder: a stream is open and recording
    status,          \* statusIndicator.className (without the fixed prefix)
    statusText,      \* statusText.textContent
    statusLog,       \* history: the statuses shown since the latest recording began
    timers,          \* pending setTimeout(() => updateStatus('idle'), ...)
    tasks,           \* the handler invocations, suspended at an await or done
    clipboard,       \* the system clipboard
    pasted,          \* history: the clipboard content of each paste performed
    calls,           \* history: how often each external operation was invoked
    listeners,       \* keydown listeners installed by the set-shortcut button
    events,          \* history: the user events delivered so far, in order
    backend          \* the native shell as the webview of main.ts knows it

vars == <<file, settings, loaded, isRecording, currentShortcut, bindings,
          recActive, status, statusText, statusLog, timers, tasks, clipboard,
          pasted, calls, listeners, events, backend>>

-----------------------------------------------------------------------------
(* Bounds of the model.                                                    *)

\* user events (press, release, clicks, key-downs) delivered in one run
MaxEvents == 3

\* the native shell before the webview has talked to it: the API key and
\* the shortcut it last accepted (set_api_key, register_shortcut), whether
\* the 'status-changed' listener is installed, and two history fields: how
\* many pending reset timers were already pending when the latest status
\* event was delivered, and whether the display still shows that event
NoBackend ==
    [apiKey |-> <<>>, shortcut |-> {}, listening |-> FALSE, stale |-> 0,
     shown |-> FALSE]

-----------------------------------------------------------------------------
(* Strings.                                                                *)

Min(a, b) == IF a < b THEN a ELSE b

\* String.prototype.trim(): drops the white space at both ends
RECURSIVE TrimStart(_)
TrimStart(s) ==
    IF s # <<>> /\ Head(s) = " " THEN TrimStart(Tail(s)) ELSE s

RECURSIVE TrimEnd(_)
TrimEnd(s) ==
    IF s # <<>> /\ s[Len(s)] = " " THEN TrimEnd(SubSeq(s, 1, Len(s) - 1)) ELSE s

Trim(s) == TrimEnd(TrimStart(s))

\* String.prototype.substring(0, n)
Substring0(s, n) == SubSeq(s, 1, Min(n, Len(s)))

\* a string used as a condition: '' is falsy
Truthy(s) == s # <<>>

-----------------------------------------------------------------------------
(* Objects and JSON.  An object is the sequence of its <<key, value>>      *)
(* pairs in insertion order; keys and values are strings.  A JSON text is  *)
(* a sequence of tokens: punctuation or a string literal.                  *)

Punct(c) == [kind |-> "punct", v |-> <<c>>]
Str(s) == [kind |-> "str", v |-> s]

HasKey(obj, k) == \E i \in 1..Len(obj) : obj[i][1] = k

Get(obj, k) == obj[CHOOSE i \in 1..Len(obj) : obj[i][1] = k][2]

\* obj[k] = v: an existing key keeps its place, a new one is appended
Set(obj, k, v) ==
    IF HasKey(obj, k)
    THEN [i \in 1..Len(obj) |-> IF obj[i][1] = k THEN <<k, v>> ELSE obj[i]]
    ELSE Append(obj, <<k, v>>)

\* { ...a, ...b }
RECURSIVE Spread(_, _)
Spread(a, b) ==
    IF b = <<>> THEN a ELSE Spread(Set(a, Head(b)[1], Head(b)[2]), Tail(b))

Keys(obj) == {obj[i][1] : i \in 1..Len(obj)}

\* deep equality of two objects (key order is not part of the value)
ObjEq(a, b) ==
    /\ Keys(a) = Keys(b)
    /\ \A k \in Keys(a) : Get(a, k) = Get(b, k)

\* JSON.stringify(obj, null, 2); the indentation carries no token
RECURSIVE StringifyEntries(_)
StringifyEntries(obj) ==
    IF obj = <<>> THEN <<>>
    ELSE <<Str(Head(obj)[1]), Punct(":"), Str(Head(obj)[2])>>
         \o (IF Tail(obj) = <<>> THEN <<>> ELSE <<Punct(",")>>)
         \o StringifyEntries(Tail(obj))

Stringify(obj) == <<Punct("{")>> \o StringifyEntries(obj) \o <<Punct("}")>>

\* JSON.parse(text) of an object text: the members after the opening brace.
\* Returns [ok, obj]; ok = FALSE models the SyntaxError.
RECURSIVE ParseMembers(_, _)
ParseMembers(toks, acc) ==
    IF Len(toks) < 4 THEN [ok |-> FALSE, obj |-> <<>>]
    ELSE IF ~(/\ toks[1].kind = "str"
              /\ toks[2] = Punct(":")
              /\ toks[3].kind = "str")
         THEN [ok |-> FALSE, obj |-> <<>>]
    ELSE LET acc2 == Set(acc, toks[1].v, toks[3].v)
         IN  IF toks[4] = Punct("}")
             THEN [ok |-> Len(toks) = 4, obj |-> IF Len(toks) = 4 THEN acc2 ELSE <<>>]
             ELSE IF toks[4] = Punct(",")
                  THEN ParseMembers(SubSeq(toks, 5, Len(toks)), acc2)
                  ELSE [ok |-> FALSE, obj |-> <<>>]

Parse(text) ==
    IF text = <<>> \/ Head(text) # Punct("{") THEN [ok |-> FALSE, obj |-> <<>>]
    ELSE IF text = <<Punct("{"), Punct("}")>> THEN [ok |-> TRUE, obj |-> <<>>]
    ELSE ParseMembers(Tail(text), <<>>)

-----------------------------------------------------------------------------
(* settings.ts                                                             *)

\* the keys of interface Settings
KApiKey == <<"apiKey">>
KShortcut == <<"shortcut">>

DEFAULT_SETTINGS ==
    << <<KApiKey, <<>> >>, <<KShortcut, <<"CommandOrControl", "Shift", "Space">> >> >>

\* the settings file: absent, or present with a text
NoFile == [exists |-> FALSE, text |-> <<>>]
FileOf(text) == [exists |-> TRUE, text |-> text]

\* loadSettings returning the parsed object without the defaults under it
loadSettings_noDefaults(f) ==
    IF ~f.exists THEN DEFAULT_SETTINGS
    ELSE LET p == Parse(f.text)
         IN  IF p.ok THEN p.obj ELSE <<>>

\* loadSettings spreading the defaults over the file's values
loadSettings_defaultsLast(f) ==
    IF ~f.exists THEN DEFAULT_SETTINGS
    ELSE LET p == Parse(f.text)
         IN  IF p.ok THEN Spread(p.obj, DEFAULT_SETTINGS) ELSE DEFAULT_SETTINGS

\* loadSettings(): defaults when the read or the parse throws
loadSettings(f) ==
    IF ~f.exists THEN DEFAULT_SETTINGS
    ELSE LET p == Parse(f.text)
         IN  IF p.ok THEN Spread(DEFAULT_SETTINGS, p.obj) ELSE DEFAULT_SETTINGS

\* saveSettings(s): the file after a successful writeTextFile
saveSettings(s) == FileOf(Stringify(s))

-----------------------------------------------------------------------------
(* The status line.                                                        *)

\* updateStatus's statusMessages[status]
statusMessages(s, message) ==
    CASE s = "idle" -> <<"Ready">>
      [] s = "recording" -> <<"Recording...">>
      [] s = "processing" -> <<"Processing...">>
      [] s = "transcribing" -> <<"Transcribing...">>
      [] s = "success" -> IF Truthy(message) THEN message ELSE <<"Done">>
      [] s = "error" -> IF Truthy(message) THEN message ELSE <<"Error">>

\* updateStatus(s, message)
updateStatus(s, message) ==
    /\ status' = s
    /\ statusText' = statusMessages(s, message)
    /\ statusLog' = IF s = "recording" THEN <<s>>
                    ELSE IF statusLog = <<>> THEN <<>>
                    ELSE Append(statusLog, s)

\* setTimeout(() => updateStatus('idle'), delay)
setTimeout == timers' = timers + 1

\* the reset timer fires
resetTimer ==
    /\ timers > 0
    /\ timers' = timers - 1
    /\ updateStatus("idle", <<>>)
    /\ UNCHANGED <<file, settings, loaded, isRecording, currentShortcut,
                   bindings, recActive, tasks, clipboard, pasted, calls,
                   listeners, events, backend>>

-----------------------------------------------------------------------------
(* Handler invocations.  tasks[h] is the h-th invocation: which handler it *)
(* is, the await it is suspended at, and its local variables.              *)

Task(kind, pc) ==
    [kind |-> kind, pc |-> pc, sc |-> <<>>, old |-> <<>>, text |-> <<>>,
     result |-> "none", error |-> "none"]

\* the invocation has returned (or thrown, for init)
Done(t, result) == [t EXCEPT !.pc = "done", !.sc = <<>>, !.old = <<>>,
                             !.result = result]

\* the invocation has returned from its catch block, having caught error
Caught(t, error) == [Done(t, "caught") EXCEPT !.error = error]

Suspended(pc) == {h \in 1..Len(tasks) : tasks[h].pc = pc}

Called(op) == calls' = [calls EXCEPT ![op] = @ + 1]

\* what the environment may answer
Reasons == {"AuthError", "RateLimitError"}
RawTexts == {<<" ">>, <<" ", "h", "i", " ">>, <<"o", "k">>}
ClipSizes == {0, 1}

-----------------------------------------------------------------------------
(* The UI-driven pipeline (src/unnamed/part_000).                          *)

\* registerShortcut(sc), from its call to its first await: the unregister
\* of the previous shortcut when there is one, else the register.
registerShortcut(t, sc) ==
    IF currentShortcut # {}
    THEN [t EXCEPT !.pc = "unregister", !.sc = sc,
                   !.old = CHOOSE o \in currentShortcut : TRUE]
    ELSE [t EXCEPT !.pc = "register", !.sc = sc]

\* init(), resumed when loadSettings() resolves
init_loaded(h) ==
    /\ tasks[h].kind = "init" /\ tasks[h].pc = "load"
    /\ LET s == loadSettings(file) IN
        /\ settings' = s
        /\ loaded' = TRUE
        /\ IF Truthy(Get(s, KShortcut))
           THEN /\ tasks' = [tasks EXCEPT ![h] = registerShortcut(@, Get(s, KShortcut))]
                /\ Called(IF currentShortcut # {} THEN "unregister" ELSE "register")
                /\ UNCHANGED <<status, statusText, statusLog>>
           ELSE /\ tasks' = [tasks EXCEPT ![h] = Done(@, "ok")]
                /\ updateStatus("idle", <<>>)
                /\ UNCHANGED calls
    /\ UNCHANGED <<file, isRecording, currentShortcut, bindings, recActive,
                   timers, clipboard, pasted, listeners, events, backend>>

\* registerShortcut, resumed when unregister(old) settles: a rejection
\* ("not registered") is ignored; register(sc) is called next.
registerShortcut_unregistered(h) ==
    /\ tasks[h].pc = "unregister"
    /\ bindings' = bindings \ {tasks[h].old}
    /\ tasks' = [tasks EXCEPT ![h].pc = "register", ![h].old = <<>>]
    /\ Called("register")
    /\ UNCHANGED <<file, settings, loaded, isRecording, currentShortcut,
                   recActive, status, statusText, statusLog, timers,
                   clipboard, pasted, listeners, events, backend>>

\* register(sc, callback) is rejected for a shortcut that is already bound,
\* and may be rejected by the OS (reserved by another application)
RegisterAccepted(sc, osOk) == osOk /\ sc \notin bindings

\* registerShortcut, resumed when register(sc) settles, and its caller after
\* it: init goes on to updateStatus('idle') or dies of the rejection; the
\* save handler reports success or catches the rejection.
registerShortcut_registered(h, osOk) ==
    /\ tasks[h].pc = "register"
    /\ LET sc == tasks[h].sc
           ok == RegisterAccepted(sc, osOk)
       IN
        /\ bindings' = IF ok THEN bindings \cup {sc} ELSE bindings
        /\ currentShortcut' = IF ok THEN {sc} ELSE currentShortcut
        /\ IF tasks[h].kind = "init"
           THEN IF ok
                THEN /\ updateStatus("idle", <<>>)
                     /\ tasks' = [tasks EXCEPT ![h] = Done(@, "ok")]
                     /\ UNCHANGED timers
                ELSE /\ tasks' = [tasks EXCEPT ![h] = Done(@, "thrown")]
                     /\ UNCHANGED <<status, statusText, statusLog, timers>>
           ELSE IF ok
                THEN /\ updateStatus("success", <<"Settings saved!">>)
                     /\ setTimeout
                     /\ tasks' = [tasks EXCEPT ![h] = Done(@, "ok")]
                ELSE /\ updateStatus("error", <<"Save failed: ", "BindingError">>)
                     /\ setTimeout
                     /\ tasks' = [tasks EXCEPT ![h] = Caught(@, "BindingError")]
    /\ UNCHANGED <<file, settings, loaded, isRecording, recActive, clipboard,
                   pasted, calls, listeners, events, backend>>

\* startRecording with its isRecording guard left out
startRecording_unguarded ==
    /\ bindings # {}
    /\ Len(events) < MaxEvents
    /\ events' = Append(events, "press")
    /\ UNCHANGED backend
    /\ isRecording' = TRUE
    /\ updateStatus("recording", <<>>)
    /\ Called("start")
    /\ tasks' = Append(tasks, Task("start", "starting"))
    /\ UNCHANGED <<file, settings, loaded, currentShortcut, bindings,
                   recActive, timers, clipboard, pasted, listeners>>

\* startRecording(), called by the shortcut callback on 'Pressed'
startRecording ==
    /\ bindings # {}
    /\ Len(events) < MaxEvents
    /\ events' = Append(events, "press")
    /\ UNCHANGED backend
    /\ IF isRecording
       THEN UNCHANGED <<isRecording, status, statusText, statusLog, tasks, calls>>
       ELSE /\ isRecording' = TRUE
            /\ updateStatus("recording", <<>>)
            /\ Called("start")
            /\ tasks' = Append(tasks, Task("start", "starting"))
    /\ UNCHANGED <<file, settings, loaded, currentShortcut, bindings,
                   recActive, timers, clipboard, pasted, listeners>>

\* startRecording, resumed when recorder.start() settles
startRecording_started(h, ok) ==
    /\ tasks[h].pc = "starting"
    /\ IF ok
       THEN /\ recActive' = TRUE
            /\ tasks' = [tasks EXCEPT ![h] = Done(@, "ok")]
            /\ UNCHANGED <<isRecording, status, statusText, statusLog>>
       ELSE /\ isRecording' = FALSE
            /\ updateStatus("error", <<"Failed to start recording">>)
            /\ tasks' = [tasks EXCEPT ![h] = Caught(@, "DeviceError")]
            /\ UNCHANGED recActive
    /\ UNCHANGED <<file, settings, loaded, currentShortcut, bindings, timers,
                   clipboard, pasted, calls, listeners, events, backend>>

\* AudioRecorder.stop(), as called: it finalizes the open stream and will
\* yield its clip; without an open stream it is a caller error and rejects
recorder_stop == IF recActive THEN "stopping" ELSE "stopRejected"

\* stopRecordingAndTranscribe(), called by the shortcut callback on 'Released'
stopRecordingAndTranscribe ==
    /\ bindings # {}
    /\ Len(events) < MaxEvents
    /\ events' = Append(events, "release")
    /\ UNCHANGED backend
    /\ IF ~isRecording
       THEN UNCHANGED <<recActive, status, statusText, statusLog, tasks, calls>>
       ELSE /\ updateStatus("processing", <<>>)
            /\ Called("stop")
            /\ tasks' = Append(tasks, Task("stop", recorder_stop))
            /\ recActive' = FALSE
    /\ UNCHANGED <<file, settings, loaded, isRecording, currentShortcut,
                   bindings, timers, clipboard, pasted, listeners>>

\* stop_catch showing a fixed message and scheduling no reset
stop_catch_bare(h, reason) ==
    /\ isRecording' = FALSE
    /\ updateStatus("error", <<>>)
    /\ UNCHANGED timers
    /\ tasks' = [tasks EXCEPT ![h] = Caught(@, reason)]

\* the catch block of stopRecordingAndTranscribe
stop_catch(h, reason) ==
    /\ isRecording' = FALSE
    /\ updateStatus("error", <<"Error: ", reason>>)
    /\ setTimeout
    /\ tasks' = [tasks EXCEPT ![h] = Caught(@, reason)]

\* stop_resolved with the empty-clip test left out
stop_resolved_unchecked(h, size) ==
    /\ tasks[h].pc = "stopping"
    /\ isRecording' = FALSE
    /\ tasks' = [tasks EXCEPT ![h].pc = "encoding",
                              ![h].result = IF size = 0 THEN "empty" ELSE "none"]
    /\ UNCHANGED <<file, settings, loaded, currentShortcut, bindings,
                   recActive, status, statusText, statusLog, timers,
                   clipboard, pasted, calls, listeners, events, backend>>

\* resumed when recorder.stop() resolves with a clip of the given size
stop_resolved(h, size) ==
    /\ tasks[h].pc = "stopping"
    /\ isRecording' = FALSE
    /\ IF size = 0
       THEN /\ updateStatus("idle", <<>>)
            /\ tasks' = [tasks EXCEPT ![h] = Done(@, "empty")]
       ELSE /\ tasks' = [tasks EXCEPT ![h].pc = "encoding"]
            /\ UNCHANGED <<status, statusText, statusLog>>
    /\ UNCHANGED <<file, settings, loaded, currentShortcut, bindings,
                   recActive, timers, clipboard, pasted, calls, listeners,
                   events, backend>>

\* resumed when recorder.stop() rejects
stop_rejected(h) ==
    /\ tasks[h].pc = "stopRejected"
    /\ stop_catch(h, "NoRecording")
    /\ UNCHANGED <<file, settings, loaded, currentShortcut, bindings,
                   recActive, clipboard, pasted, calls, listeners, events, backend>>

\* stop_encoded without its updateStatus('transcribing')
stop_encoded_silent(h) ==
    /\ tasks[h].pc = "encoding"
    /\ Called("transcribe")
    /\ tasks' = [tasks EXCEPT ![h].pc = "transcribing"]
    /\ UNCHANGED <<file, settings, loaded, isRecording, currentShortcut,
                   bindings, recActive, status, statusText, statusLog, timers,
                   clipboard, pasted, listeners, events, backend>>

\* resumed when blobToBase64() resolves: transcribeAudio is called
stop_encoded(h) ==
    /\ tasks[h].pc = "encoding"
    /\ updateStatus("transcribing", <<>>)
    /\ Called("transcribe")
    /\ tasks' = [tasks EXCEPT ![h].pc = "transcribing"]
    /\ UNCHANGED <<file, settings, loaded, isRecording, currentShortcut,
                   bindings, recActive, timers, clipboard, pasted, listeners,
                   events, backend>>

\* transcribeAudio returning the response text as it came
transcribeAudio_untrimmed(raw) == raw

\* transcribeAudio(): response.text().trim()
transcribeAudio(raw) == Trim(raw)

\* resumed when transcribeAudio() resolves, the model having answered raw
stop_transcribed(h, raw) ==
    /\ tasks[h].pc = "transcribing"
    /\ LET text == transcribeAudio(raw) IN
        IF Truthy(text)
        THEN /\ tasks' = [tasks EXCEPT ![h].pc = "writing", ![h].text = text]
             /\ Called("writeText")
             /\ UNCHANGED <<status, statusText, statusLog, timers>>
        ELSE /\ updateStatus("idle", <<>>)
             /\ setTimeout
             /\ tasks' = [tasks EXCEPT ![h] = Done(@, "notext")]
             /\ UNCHANGED calls
    /\ UNCHANGED <<file, settings, loaded, isRecording, currentShortcut,
                   bindings, recActive, clipboard, pasted, listeners, events, backend>>

\* stop_transcribeFailed issuing the request again instead of giving up
stop_transcribeFailed_retrying(h, reason) ==
    /\ tasks[h].pc = "transcribing"
    /\ Called("transcribe")
    /\ UNCHANGED <<file, settings, loaded, isRecording, currentShortcut,
                   bindings, recActive, status, statusText, statusLog, timers,
                   tasks, clipboard, pasted, listeners, events, backend>>

\* resumed when transcribeAudio() rejects
stop_transcribeFailed(h, reason) ==
    /\ tasks[h].pc = "transcribing"
    /\ stop_catch(h, reason)
    /\ UNCHANGED <<file, settings, loaded, currentShortcut, bindings,
                   recActive, clipboard, pasted, calls, listeners, events, backend>>

\* resumed when writeText(text) settles; the 100 ms delay starts
stop_written(h, ok) ==
    /\ tasks[h].pc = "writing"
    /\ IF ok
       THEN /\ clipboard' = tasks[h].text
            /\ tasks' = [tasks EXCEPT ![h].pc = "delay"]
            /\ UNCHANGED <<isRecording, status, statusText, statusLog, timers>>
       ELSE /\ stop_catch(h, "ClipboardError")
            /\ UNCHANGED clipboard
    /\ UNCHANGED <<file, settings, loaded, currentShortcut, bindings,
                   recActive, pasted, calls, listeners, events, backend>>

\* resumed when the 100 ms delay is over: invoke('execute_paste')
stop_delayed(h) ==
    /\ tasks[h].pc = "delay"
    /\ Called("paste")
    /\ tasks' = [tasks EXCEPT ![h].pc = "pasting"]
    /\ UNCHANGED <<file, settings, loaded, isRecording, currentShortcut,
                   bindings, recActive, status, statusText, statusLog, timers,
                   clipboard, pasted, listeners, events, backend>>

\* resumed when invoke('execute_paste') settles
stop_pasted(h, ok) ==
    /\ tasks[h].pc = "pasting"
    /\ IF ok
       THEN /\ pasted' = Append(pasted, clipboard)
            /\ updateStatus("success",
                   <<"Transcribed: ">> \o Substring0(tasks[h].text, 50) \o <<"...">>)
            /\ setTimeout
            /\ tasks' = [tasks EXCEPT ![h] = Done(@, "ok")]
            /\ UNCHANGED isRecording
       ELSE /\ stop_catch(h, "AutomationError")
            /\ UNCHANGED pasted
    /\ UNCHANGED <<file, settings, loaded, currentShortcut, bindings,
                   recActive, clipboard, calls, listeners, events, backend>>

-----------------------------------------------------------------------------
(* Shortcut capture and the save button (src/unnamed/part_000).            *)

\* String.prototype.toUpperCase() on the key names used here
toUpperCase(key) ==
    CASE key = "a" -> "A"
      [] key = "z" -> "Z"
      [] key = "ArrowUp" -> "ARROWUP"
      [] key = "Enter" -> "ENTER"
      [] key = "Tab" -> "TAB"
      [] OTHER -> key

ModifierKeys == {"Control", "Shift", "Alt", "Meta"}

KeyEvent(meta, ctrl, alt, shift, key) ==
    [metaKey |-> meta, ctrlKey |-> ctrl, altKey |-> alt, shiftKey |-> shift,
     key |-> key]

\* the modifiers handleKeyDown pushes first
modifierParts(e) ==
    (IF e.metaKey \/ e.ctrlKey THEN <<"CommandOrControl">> ELSE <<>>)
    \o (IF e.altKey THEN <<"Alt">> ELSE <<>>)
    \o (IF e.shiftKey THEN <<"Shift">> ELSE <<>>)

\* handleKeyDown's parts, joined by '+' (a descriptor is its token list)
newShortcut(e) == Append(modifierParts(e), toUpperCase(e.key))

\* the key-down events the user produces in the pipeline model
KeyEvents ==
    { KeyEvent(FALSE, TRUE, FALSE, FALSE, "a"),
      KeyEvent(FALSE, FALSE, FALSE, TRUE, "Shift") }

\* the values typed into the API key field
ApiKeyInputs == {<<" ", "k", " ">>}

\* click on the set-shortcut button: a keydown listener is added
setShortcutClick ==
    /\ loaded
    /\ Len(events) < MaxEvents
    /\ events' = Append(events, "setShortcut")
    /\ UNCHANGED backend
    /\ listeners' = listeners + 1
    /\ UNCHANGED <<file, settings, loaded, isRecording, currentShortcut,
                   bindings, recActive, status, statusText, statusLog, timers,
                   tasks, clipboard, pasted, calls>>

\* a key-down while listeners are installed: every listener runs
\* handleKeyDown; on a non-modifier key each stores the shortcut and
\* removes itself
handleKeyDown(e) ==
    /\ listeners > 0
    /\ Len(events) < MaxEvents
    /\ events' = Append(events, "keydown")
    /\ UNCHANGED backend
    /\ IF e.key \notin ModifierKeys
       THEN /\ settings' = Set(settings, KShortcut, newShortcut(e))
            /\ listeners' = 0
       ELSE UNCHANGED <<settings, listeners>>
    /\ UNCHANGED <<file, loaded, isRecording, currentShortcut, bindings,
                   recActive, status, statusText, statusLog, timers, tasks,
                   clipboard, pasted, calls>>

\* click on the save button, up to the first await of saveSettings
saveClick(input) ==
    /\ loaded
    /\ Len(events) < MaxEvents
    /\ events' = Append(events, "save")
    /\ UNCHANGED backend
    /\ settings' = Set(settings, KApiKey, Trim(input))
    /\ tasks' = Append(tasks, Task("save", "write"))
    /\ UNCHANGED <<file, loaded, isRecording, currentShortcut, bindings,
                   recActive, status, statusText, statusLog, timers,
                   clipboard, pasted, calls, listeners>>

\* the save handler, resumed when saveSettings(settings) settles: the file
\* holds the settings as they were when writeTextFile was called (a failed
\* mkdir is ignored); then the shortcut is registered again
save_written(h, ok) ==
    /\ tasks[h].kind = "save" /\ tasks[h].pc = "write"
    /\ IF ok
       THEN /\ file' = saveSettings(settings)
            /\ IF Truthy(Get(settings, KShortcut))
               THEN /\ tasks' = [tasks EXCEPT
                            ![h] = registerShortcut(@, Get(settings, KShortcut))]
                    /\ Called(IF currentShortcut # {} THEN "unregister" ELSE "register")
                    /\ UNCHANGED <<status, statusText, statusLog, timers>>
               ELSE /\ updateStatus("success", <<"Settings saved!">>)
                    /\ setTimeout
                    /\ tasks' = [tasks EXCEPT ![h] = Done(@, "ok")]
                    /\ UNCHANGED calls
       ELSE /\ updateStatus("error", <<"Save failed: ", "WriteError">>)
            /\ setTimeout
            /\ tasks' = [tasks EXCEPT ![h] = Caught(@, "WriteError")]
            /\ UNCHANGED <<file, calls>>
    /\ UNCHANGED <<settings, loaded, isRecording, currentShortcut, bindings,
                   recActive, clipboard, pasted, listeners, events, backend>>

-----------------------------------------------------------------------------
(* The UI-driven program.                                                  *)

\* settings files the program may find at startup: none, or one that names
\* no shortcut and carries a key outside the schema
StoredSettings ==
    << <<KApiKey, <<"k">> >>, <<KShortcut, <<>> >>, <<<<"theme">>, <<"dark">> >> >>

InitialFiles == {NoFile, saveSettings(StoredSettings)}

NoCalls ==
    [start |-> 0, stop |-> 0, transcribe |-> 0, writeText |-> 0, paste |-> 0,
     register |-> 0, unregister |-> 0]

Init ==
    /\ file \in InitialFiles
    /\ settings = <<>>
    /\ loaded = FALSE
    /\ isRecording = FALSE
    /\ currentShortcut = {}
    /\ bindings = {}
    /\ recActive = FALSE
    /\ status = "initial"
    /\ statusText = <<>>
    /\ statusLog = <<>>
    /\ timers = 0
    /\ tasks = <<Task("init", "load")>>
    /\ clipboard = <<>>
    /\ pasted = <<>>
    /\ calls = NoCalls
    /\ listeners = 0
    /\ events = <<>>
    /\ backend = NoBackend

Next ==
    \/ \E h \in Suspended("load") : init_loaded(h)
    \/ \E h \in Suspended("unregister") : registerShortcut_unregistered(h)
    \/ \E h \in Suspended("register"), osOk \in BOOLEAN :
            registerShortcut_registered(h, osOk)
    \/ startRecording
    \/ \E h \in Suspended("starting"), ok \in BOOLEAN : startRecording_started(h, ok)
    \/ stopRecordingAndTranscribe
    \/ \E h \in Suspended("stopping"), size \in ClipSizes : stop_resolved(h, size)
    \/ \E h \in Suspended("stopRejected") : stop_rejected(h)
    \/ \E h \in Suspended("encoding") : stop_encoded(h)
    \/ \E h \in Suspended("transcribing"), raw \in RawTexts : stop_transcribed(h, raw)
    \/ \E h \in Suspended("transcribing"), reason \in Reasons :
            stop_transcribeFailed(h, reason)
    \/ \E h \in Suspended("writing"), ok \in BOOLEAN : stop_written(h, ok)
    \/ \E h \in Suspended("delay") : stop_delayed(h)
    \/ \E h \in Suspended("pasting"), ok \in BOOLEAN : stop_pasted(h, ok)
    \/ resetTimer
    \/ setShortcutClick
    \/ \E e \in KeyEvents : handleKeyDown(e)
    \/ \E input \in ApiKeyInputs : saveClick(input)
    \/ \E h \in Suspended("write"), ok \in BOOLEAN : save_written(h, ok)

Spec == Init /\ [][Next]_vars

-----------------------------------------------------------------------------
(* Properties of the UI-driven pipeline.                                   *)

TaskIds == 1..Len(tasks)

\* successful recorder.start() calls so far
StartsCompleted ==
    Cardinality({h \in TaskIds : tasks[h].kind = "start" /\ tasks[h].result = "ok"})

\* a transcribeAudio call is pending
Transcribing == \E h \in TaskIds : tasks[h].pc = "transcribing"

\* C1: while a clip's transcribeAudio call is pending, no step invokes
\* recorder.start() or turns the status to 'recording'.
C1_OneClipInFlight ==
    [][Transcribing =>
         /\ calls'.start = calls.start
         /\ (status' = "recording" => status = "recording")]_vars

\* C2: a press that arrives while isRecording is true changes nothing: no
\* recorder.start() call, isRecording and the status line as they were.
C2_PressWhileRecordingIsNoOp ==
    [][(startRecording /\ isRecording) =>
         /\ calls' = calls
         /\ tasks' = tasks
         /\ isRecording' = isRecording
         /\ status' = status
         /\ statusText' = statusText]_vars

\* a second press was delivered and ignored while the first recording ran
C2_Witness ==
    /\ events = <<"press", "press">>
    /\ calls.start = 1
    /\ isRecording
    /\ status = "recording"

\* C3: every recorder.stop() call is made after a recorder.start() that
\* completed successfully and that no earlier stop() has matched.
C3_StopOnlyAfterStart ==
    [][calls'.stop > calls.stop => StartsCompleted > calls.stop]_vars

\* the run so far is one press followed by one release, nothing else
SingleCycle == events = <<"press", "release">>

IsPrefix(p, q) == Len(p) <= Len(q) /\ SubSeq(q, 1, Len(p)) = p

Contains(seq, x) == \E i \in 1..Len(seq) : seq[i] = x

\* the stop handler h got a non-empty clip and a non-empty text, and is done
DeliveredText(h) ==
    /\ tasks[h].kind = "stop"
    /\ tasks[h].pc = "done"
    /\ tasks[h].text # <<>>

HappyPath == <<"recording", "processing", "transcribing", "success">>

\* what C4 promises of the stop handler h that obtained the text t
C4_Delivery(h) ==
    /\ IsPrefix(HappyPath, statusLog)
    /\ calls.writeText = 1
    /\ calls.paste = 1
    /\ pasted = <<tasks[h].text>>

TranscribeFails(h) ==
    /\ tasks[h].pc = "transcribing"
    /\ tasks'[h].pc = "done"
    /\ tasks'[h].result = "caught"

\* C5: when transcribeAudio fails, the status becomes 'error' with a message
\* that contains the failure reason, the handler neither writes the clipboard
\* nor pastes, isRecording is false afterwards, a reset timer is scheduled,
\* and a reset timer that fires sets the status to 'idle'.
C5_TranscriptionFailure ==
    [][/\ \A h \in TaskIds :
            TranscribeFails(h) =>
                /\ status' = "error"
                /\ tasks'[h].error \in Reasons
                /\ Contains(statusText', tasks'[h].error)
                /\ calls'.writeText = calls.writeText
                /\ calls'.paste = calls.paste
                /\ clipboard' = clipboard
                /\ pasted' = pasted
                /\ isRecording' = FALSE
                /\ timers' = timers + 1
       /\ timers' < timers => status' = "idle"]_vars

\* a transcription has failed with a rate limit and the error is on display
C5_Witness ==
    /\ \E h \in TaskIds :
            /\ tasks[h].kind = "stop"
            /\ tasks[h].result = "caught"
            /\ tasks[h].error = "RateLimitError"
    /\ status = "error"
    /\ statusText = <<"Error: ", "RateLimitError">>
    /\ calls.transcribe = 1
    /\ timers = 1

\* the step in which handler h receives an empty clip from recorder.stop()
EmptyClip(h) ==
    /\ tasks[h].pc = "stopping"
    /\ tasks'[h].result = "empty"

Quiescent == \A h \in TaskIds : tasks[h].pc = "done"

\* C7: a status of 'error' is always followed by a timed reset to 'idle':
\* when 'error' is shown and no handler is running, a reset timer is pending.
C7_ErrorIsReset == (status = "error" /\ Quiescent) => timers > 0

\* the step in which handler h learns that register() was rejected
RegistrationRejected(h) ==
    /\ tasks[h].pc = "register"
    /\ tasks'[h].pc = "done"
    /\ tasks'[h].result \in {"thrown", "caught"}

\* C8: when the hotkey registration is rejected, at startup or on save, the
\* handler ends with the status 'error'.
C8_RejectionIsShown ==
    [][\A h \in TaskIds : RegistrationRejected(h) => status' = "error"]_vars

\* C9: at most one shortcut is bound at any time.
C9_OneBinding == Cardinality(bindings) <= 1

-----------------------------------------------------------------------------
(* settings.ts on its own: saveSettings and loadSettings applied, in any   *)
(* order, to Settings values and settings files drawn from bounded sets.   *)

SettingsApiKeys == {<<>>, <<"k">>, <<" ">>, <<"k", "2">>}

SettingsShortcuts ==
    {<<>>, <<"CommandOrControl", "Shift", "Space">>, <<"Alt", "Z">>}

\* the Settings values: an apiKey and a shortcut, both strings
SettingsValues ==
    { << <<KApiKey, a>>, <<KShortcut, sc>> >> :
        a \in SettingsApiKeys, sc \in SettingsShortcuts }

\* settings files: missing, empty, truncated, with a trailing comma, an
\* empty object, objects lacking a key, a complete one, one with an extra key
SettingsFiles ==
    { NoFile,
      FileOf(<<>>),
      FileOf(<<Punct("{"), Str(KApiKey), Punct(":")>>),
      FileOf(<<Punct("{"), Str(KApiKey), Punct(":"), Str(<<"k">>), Punct(","), Punct("}")>>),
      FileOf(Stringify(<<>>)),
      FileOf(Stringify(<< <<KApiKey, <<"k">> >> >>)),
      FileOf(Stringify(<< <<KShortcut, <<"Alt", "Z">> >> >>)),
      FileOf(Stringify(<< <<KShortcut, <<"Alt", "Z">> >>, <<KApiKey, <<"k">> >> >>)),
      FileOf(Stringify(StoredSettings)) }

\* await saveSettings(settings), the write having succeeded
settings_save ==
    /\ Len(events) < MaxEvents
    /\ events' = Append(events, "save")
    /\ UNCHANGED backend
    /\ file' = saveSettings(settings)
    /\ UNCHANGED <<settings, loaded, isRecording, currentShortcut, bindings,
                   recActive, status, statusText, statusLog, timers, tasks,
                   clipboard, pasted, calls, listeners>>

\* await saveSettings(settings), writeTextFile having thrown
settings_saveFailed ==
    /\ Len(events) < MaxEvents
    /\ events' = Append(events, "saveFailed")
    /\ UNCHANGED backend
    /\ UNCHANGED <<file, settings, loaded, isRecording, currentShortcut,
                   bindings, recActive, status, statusText, statusLog, timers,
                   tasks, clipboard, pasted, calls, listeners>>

\* settings = await loadSettings()
settings_load ==
    /\ Len(events) < MaxEvents
    /\ events' = Append(events, "load")
    /\ UNCHANGED backend
    /\ settings' = loadSettings(file)
    /\ loaded' = TRUE
    /\ UNCHANGED <<file, isRecording, currentShortcut, bindings, recActive,
                   status, statusText, statusLog, timers, tasks, clipboard,
                   pasted, calls, listeners>>

InitSettings ==
    /\ file \in SettingsFiles
    /\ settings \in SettingsValues
    /\ loaded = TRUE
    /\ isRecording = FALSE
    /\ currentShortcut = {}
    /\ bindings = {}
    /\ recActive = FALSE
    /\ status = "initial"
    /\ statusText = <<>>
    /\ statusLog = <<>>
    /\ timers = 0
    /\ tasks = <<>>
    /\ clipboard = <<>>
    /\ pasted = <<>>
    /\ calls = NoCalls
    /\ listeners = 0
    /\ events = <<>>
    /\ backend = NoBackend

NextSettings ==
    \/ settings_save
    \/ settings_saveFailed
    \/ settings_load

SpecSettings == InitSettings /\ [][NextSettings]_vars

LastEvent == IF events = <<>> THEN "none" ELSE events[Len(events)]

\* C10: saveSettings(s) followed by loadSettings() returns a value equal
\* to s, for every Settings value s.
C10_SaveLoadRoundTrip ==
    [][(settings_load /\ LastEvent = "save") => ObjEq(settings', settings)]_vars

\* a Settings value that differs from the defaults has been saved and loaded
C10_Witness ==
    /\ events = <<"save", "load">>
    /\ settings = << <<KApiKey, <<"k", "2">> >>, <<KShortcut, <<"Alt", "Z">> >> >>
    /\ file = saveSettings(settings)

\* the keys of the Settings schema
SchemaKeys == {KApiKey, KShortcut}

\* the file cannot be read as JSON: it is missing or its text does not parse
Unreadable(f) == ~f.exists \/ ~Parse(f.text).ok

\* C11: loadSettings() on a missing or unparsable file returns exactly the
\* default Settings value; on a file that lacks a key of the schema, that
\* key takes its default.
C11_LoadFallsBackToDefaults ==
    [][settings_load =>
         /\ Unreadable(file) => settings' = DEFAULT_SETTINGS
         /\ ~Unreadable(file) =>
                \A k \in SchemaKeys :
                    /\ HasKey(settings', k)
                    /\ ~HasKey(Parse(file.text).obj, k) =>
                           Get(settings', k) = Get(DEFAULT_SETTINGS, k)
                    /\ HasKey(Parse(file.text).obj, k) =>
                           Get(settings', k) = Get(Parse(file.text).obj, k)]_vars

\* a truncated file has been loaded over a non-default value
C11_Witness ==
    /\ events = <<"load">>
    /\ file = FileOf(<<Punct("{"), Str(KApiKey), Punct(":")>>)
    /\ settings = DEFAULT_SETTINGS

\* C12: a save of the value just loaded writes no key outside the schema.
C12_UnknownKeysDropped ==
    [][(settings_save /\ LastEvent = "load") =>
         /\ Parse(file'.text).ok
         /\ Keys(Parse(file'.text).obj) \subseteq SchemaKeys]_vars

-----------------------------------------------------------------------------
(* Further properties of the UI-driven pipeline.                           *)

\* the user has only pressed and released the hotkey
OnlyHotkey == \A i \in 1..Len(events) : events[i] \in {"press", "release"}

\* the statuses shown while a cycle is under way
ActiveStatuses == {"recording", "processing", "transcribing"}

\* this step is a stopRecordingAndTranscribe handler ending on its own move
\* to 'idle': the empty clip or the empty transcription
HandlerEndsIdle ==
    \E h \in TaskIds :
        /\ tasks[h].kind = "stop"
        /\ tasks[h].result = "none"
        /\ tasks'[h].result \in {"empty", "notext"}

\* C13: with only press/release events the status follows the state machine
\* idle -> recording -> processing -> transcribing -> {success | error} ->
\* idle; in particular, under any interleaving of handlers and reset timers,
\* the status never moves from recording, processing or transcribing to idle
\* except by a transition of the machine.  The clause is stated in its
\* weakest reading: every move to idle made by the pipeline handler itself
\* is admitted, so only a move made by a reset timer violates it.
C13_ActiveNeverResetToIdle ==
    [][(OnlyHotkey /\ status \in ActiveStatuses /\ status' = "idle") =>
         HandlerEndsIdle]_vars

\* C14: one transcription request per recording and no retry: the number of
\* transcribeAudio calls never exceeds the number of recorder.start() calls
\* that succeeded; a call is made only by a handler passing from the encoded
\* clip to the request, once; and a handler that has ended (so also one
\* whose transcription failed) takes no further step.
C14_OneRequestPerRecording ==
    [][/\ calls'.transcribe <= StartsCompleted'
       /\ calls'.transcribe <= calls'.stop
       /\ calls'.transcribe # calls.transcribe =>
             /\ calls'.transcribe = calls.transcribe + 1
             /\ \E h \in TaskIds :
                   /\ tasks[h].kind = "stop"
                   /\ tasks[h].pc = "encoding"
                   /\ tasks'[h].pc = "transcribing"
       /\ \A h \in TaskIds :
             tasks[h].pc = "done" => tasks'[h] = tasks[h]]_vars

\* a transcription has failed and its handler has ended after one request
C14_Witness ==
    /\ \E h \in TaskIds :
          /\ tasks[h].kind = "stop"
          /\ tasks[h].result = "caught"
          /\ tasks[h].error \in Reasons
    /\ calls.transcribe = 1
    /\ Quiescent
    /\ timers = 0

\* C16: whenever no press/release handler is in progress, isRecording is
\* true exactly when the recorder has an open stream.
C16_FlagMatchesRecorder ==
    Quiescent => (isRecording <=> recActive)

\* a registerShortcut call is between its first await and its return
Registering ==
    \E h \in TaskIds : tasks[h].pc \in {"unregister", "register"}

\* C17: whenever no registerShortcut call is in progress, currentShortcut
\* names exactly the binding that is active (null when none is).
C17_CurrentShortcutIsActiveBinding ==
    ~Registering => currentShortcut = bindings

\* the response text holds nothing but blanks
Blank(raw) == \A i \in 1..Len(raw) : raw[i] = " "

\* C18: when the transcription comes back empty after trimming, the handler
\* ends in that step, so it never shows 'success': no clipboard write and
\* no paste call is made, the clipboard is untouched and the status is
\* 'idle' when the handler finishes.
C18_EmptyTextIsNotDelivered ==
    [][\A h \in TaskIds : \A raw \in RawTexts :
         (stop_transcribed(h, raw) /\ Blank(raw)) =>
             /\ tasks'[h].pc = "done"
             /\ tasks'[h].result = "notext"
             /\ calls'.writeText = calls.writeText
             /\ calls'.paste = calls.paste
             /\ clipboard' = clipboard
             /\ pasted' = pasted
             /\ status' = "idle"]_vars

\* a cycle has ended on a blank transcription
C18_Witness ==
    /\ events = <<"press", "release">>
    /\ \E h \in TaskIds : tasks[h].kind = "stop" /\ tasks[h].result = "notext"
    /\ calls.transcribe = 1
    /\ calls.writeText = 0
    /\ calls.paste = 0
    /\ status = "idle"
    /\ Quiescent

-----------------------------------------------------------------------------
(* Key capture: the set-shortcut button and its keydown listener, alone.   *)

\* the keys the user may press during a capture
CaptureKeys == {"a", " ", "ArrowUp", "Tab", "Shift", "Control"}

\* the key-down events of a capture: any modifiers held, any of the keys
CaptureKeyEvents ==
    {KeyEvent(meta, ctrl, alt, shift, key) :
        meta \in {FALSE}, ctrl \in BOOLEAN, alt \in BOOLEAN,
        shift \in BOOLEAN, key \in CaptureKeys}
    \cup {KeyEvent(TRUE, FALSE, FALSE, FALSE, "a")}

InitCapture ==
    /\ file = NoFile
    /\ settings = DEFAULT_SETTINGS
    /\ loaded = TRUE
    /\ isRecording = FALSE
    /\ currentShortcut = {}
    /\ bindings = {}
    /\ recActive = FALSE
    /\ status = "idle"
    /\ statusText = statusMessages("idle", <<>>)
    /\ statusLog = <<>>
    /\ timers = 0
    /\ tasks = <<>>
    /\ clipboard = <<>>
    /\ pasted = <<>>
    /\ calls = NoCalls
    /\ listeners = 0
    /\ events = <<>>
    /\ backend = NoBackend

NextCapture ==
    \/ setShortcutClick
    \/ \E e \in CaptureKeyEvents : handleKeyDown(e)

SpecCapture == InitCapture /\ [][NextCapture]_vars

\* the name the descriptor uses for a key: the canonical name of a known
\* control key, the uppercased key otherwise
CanonicalKey(key) ==
    CASE key = " " -> "SPACE"
      [] key = "ArrowUp" -> "UP"
      [] key = "Tab" -> "TAB"
      [] OTHER -> toUpperCase(key)

\* the modifiers held in e, in the fixed order
HeldModifiers(e) ==
    LET held(m) == CASE m = "CommandOrControl" -> e.metaKey \/ e.ctrlKey
                     [] m = "Alt" -> e.altKey
                     [] m = "Shift" -> e.shiftKey
    IN  SelectSeq(<<"CommandOrControl", "Alt", "Shift">>, held)

\* C15: a capture ends on the first non-modifier key; the descriptor is the
\* held modifiers in the order CommandOrControl, Alt, Shift followed by one
\* key token, uppercased, a known control key under its canonical name; the
\* listener is removed after firing, and with no listener installed
\* settings.shortcut does not change.
C15_KeyCapture ==
    [][/\ \A e \in CaptureKeyEvents :
             handleKeyDown(e) =>
                 IF e.key \in ModifierKeys
                 THEN settings' = settings /\ listeners' = listeners
                 ELSE /\ Get(settings', KShortcut) =
                            Append(HeldModifiers(e), CanonicalKey(e.key))
                      /\ listeners' = 0
       /\ listeners = 0 => settings' = settings]_vars

-----------------------------------------------------------------------------
(* The backend-driven variant (src/src/main.ts): the webview stores the    *)
(* settings, hands the API key and the shortcut to the native shell and    *)
(* mirrors the shell's 'status-changed' events.                            *)

\* updateStatus's statusMessages[status] in main.ts
main_statusMessages(s, message) ==
    CASE s = "idle" -> <<"Ready (Recording handled by Rust backend)">>
      [] s = "recording" -> <<"Recording...">>
      [] s = "processing" -> <<"Processing...">>
      [] s = "transcribing" -> <<"Transcribing...">>
      [] s = "success" -> IF Truthy(message) THEN message ELSE <<"Done">>
      [] s = "error" -> IF Truthy(message) THEN message ELSE <<"Error">>

\* the status history after one more updateStatus(s)
LogAfter(log, s) ==
    IF s = "recording" THEN <<s>>
    ELSE IF log = <<>> THEN <<>>
    ELSE Append(log, s)

\* one updateStatus(s, message) call of main.ts
main_updateStatus(s, message) ==
    /\ status' = s
    /\ statusText' = main_statusMessages(s, message)
    /\ statusLog' = LogAfter(statusLog, s)

\* updateStatus(s1, ...) followed in the same run by updateStatus(s2, message)
main_updateStatusTwice(s1, s2, message) ==
    /\ status' = s2
    /\ statusText' = main_statusMessages(s2, message)
    /\ statusLog' = LogAfter(LogAfter(statusLog, s1), s2)

\* a handler of the webview has written the status line
Overwritten(b) == [b EXCEPT !.shown = FALSE]

\* setTimeout(() => updateStatus('idle'), 2000) firing; the timers all have
\* the same delay, so the oldest fires first
main_resetTimer ==
    /\ timers > 0
    /\ timers' = timers - 1
    /\ main_updateStatus("idle", <<>>)
    /\ backend' = [Overwritten(backend) EXCEPT
                       !.stale = IF @ > 0 THEN @ - 1 ELSE 0]
    /\ UNCHANGED <<file, settings, loaded, isRecording, currentShortcut,
                   bindings, recActive, tasks, clipboard, pasted, calls,
                   listeners, events>>

\* init after the API key step: register the shortcut if there is one,
\* else show 'idle' and call listen()
main_init_continue(h, s) ==
    IF Truthy(Get(s, KShortcut))
    THEN /\ tasks' = [tasks EXCEPT ![h].pc = "registerB",
                                   ![h].sc = Get(s, KShortcut)]
         /\ UNCHANGED <<status, statusText, statusLog>>
    ELSE /\ tasks' = [tasks EXCEPT ![h].pc = "listen"]
         /\ main_updateStatus("idle", <<>>)

\* init, resumed when loadSettings() resolves
main_init_loaded(h) ==
    /\ tasks[h].kind = "init" /\ tasks[h].pc = "load"
    /\ LET s == loadSettings(file) IN
        /\ settings' = s
        /\ loaded' = TRUE
        /\ IF Truthy(Get(s, KApiKey))
           THEN /\ tasks' = [tasks EXCEPT ![h].pc = "setApiKey",
                                          ![h].text = Get(s, KApiKey)]
                /\ UNCHANGED <<status, statusText, statusLog, backend>>
           ELSE /\ main_init_continue(h, s)
                /\ backend' = IF Truthy(Get(s, KShortcut)) THEN backend
                              ELSE Overwritten(backend)
    /\ UNCHANGED <<file, isRecording, currentShortcut, bindings, recActive,
                   timers, clipboard, pasted, calls, listeners, events>>

\* init, resumed when invoke('set_api_key') settles; a rejection ends init
main_init_apiKeySet(h, ok) ==
    /\ tasks[h].kind = "init" /\ tasks[h].pc = "setApiKey"
    /\ IF ok
       THEN /\ main_init_continue(h, settings)
            /\ backend' = [(IF Truthy(Get(settings, KShortcut)) THEN backend
                            ELSE Overwritten(backend))
                              EXCEPT !.apiKey = tasks[h].text]
       ELSE /\ tasks' = [tasks EXCEPT ![h] = Done(@, "thrown")]
            /\ UNCHANGED <<status, statusText, statusLog, backend>>
    /\ UNCHANGED <<file, settings, loaded, isRecording, currentShortcut,
                   bindings, recActive, timers, clipboard, pasted, calls,
                   listeners, events>>

\* registerShortcutInBackend, resumed when invoke('register_shortcut')
\* settles, and its caller's next statements: init shows 'idle' and calls
\* listen(); the save handler shows 'Settings saved!' and schedules a reset
registerShortcutInBackend_settled(h, ok) ==
    /\ tasks[h].pc = "registerB"
    /\ LET first == IF ok THEN "success" ELSE "error"
           own == IF ok THEN 1 ELSE 0
       IN  IF tasks[h].kind = "init"
           THEN /\ main_updateStatusTwice(first, "idle", <<>>)
                /\ timers' = timers + own
                /\ tasks' = [tasks EXCEPT ![h].pc = "listen", ![h].sc = <<>>]
           ELSE /\ main_updateStatusTwice(first, "success", <<"Settings saved!">>)
                /\ timers' = timers + own + 1
                /\ tasks' = [tasks EXCEPT ![h] = Done(@, "ok")]
    /\ backend' = [Overwritten(backend) EXCEPT
                       !.shortcut = IF ok THEN {tasks[h].sc} ELSE @]
    /\ UNCHANGED <<file, settings, loaded, isRecording, currentShortcut,
                   bindings, recActive, clipboard, pasted, calls, listeners,
                   events>>

\* init, resumed when listen('status-changed', ...) resolves
main_init_listening(h) ==
    /\ tasks[h].kind = "init" /\ tasks[h].pc = "listen"
    /\ tasks' = [tasks EXCEPT ![h] = Done(@, "ok")]
    /\ backend' = [backend EXCEPT !.listening = TRUE]
    /\ UNCHANGED <<file, settings, loaded, isRecording, currentShortcut,
                   bindings, recActive, status, statusText, statusLog, timers,
                   clipboard, pasted, calls, listeners, events>>

\* the payloads of 'status-changed': a status name, or 'error:' and a message
StatusPayloads ==
    {<<"recording">>, <<"processing">>, <<"idle">>, <<"error:", "MicError">>}

\* the 'status-changed' listener
statusChanged(payload) ==
    /\ backend.listening
    /\ Len(events) < MaxEvents
    /\ events' = Append(events, "status")
    /\ IF Head(payload) = "error:"
       THEN main_updateStatus("error", Tail(payload))
       ELSE main_updateStatus(Head(payload), <<>>)
    /\ backend' = [backend EXCEPT !.shown = TRUE, !.stale = timers]
    /\ UNCHANGED <<file, settings, loaded, isRecording, currentShortcut,
                   bindings, recActive, timers, tasks, clipboard, pasted,
                   calls, listeners>>

\* keyMap[e.key] || e.key.toUpperCase()
keyName(key) ==
    CASE key = " " -> "SPACE"
      [] key = "ArrowUp" -> "UP"
      [] key = "ArrowDown" -> "DOWN"
      [] key = "ArrowLeft" -> "LEFT"
      [] key = "ArrowRight" -> "RIGHT"
      [] key = "Enter" -> "ENTER"
      [] key = "Escape" -> "ESCAPE"
      [] key = "Tab" -> "TAB"
      [] key = "Backspace" -> "BACKSPACE"
      [] key = "Delete" -> "DELETE"
      [] key = "Home" -> "HOME"
      [] key = "End" -> "END"
      [] key = "PageUp" -> "PAGEUP"
      [] key = "PageDown" -> "PAGEDOWN"
      [] OTHER -> toUpperCase(key)

\* the key-down events the user produces in the backend-driven model
main_KeyEvents ==
    { KeyEvent(FALSE, TRUE, FALSE, FALSE, " "),
      KeyEvent(FALSE, FALSE, TRUE, FALSE, "Alt") }

\* click on the set-shortcut button of main.ts
main_setShortcutClick == setShortcutClick

\* handleKeyDown of main.ts: as in the UI-driven file, with the key mapped
main_handleKeyDown(e) ==
    /\ listeners > 0
    /\ Len(events) < MaxEvents
    /\ events' = Append(events, "keydown")
    /\ IF e.key \notin ModifierKeys
       THEN /\ settings' = Set(settings, KShortcut,
                               Append(modifierParts(e), keyName(e.key)))
            /\ listeners' = 0
       ELSE UNCHANGED <<settings, listeners>>
    /\ UNCHANGED <<file, loaded, isRecording, currentShortcut, bindings,
                   recActive, status, statusText, statusLog, timers, tasks,
                   clipboard, pasted, calls, backend>>

\* click on the save button of main.ts, up to the first await
main_saveClick(input) == saveClick(input)

\* the catch block of the save handler of main.ts
main_save_catch(h, reason) ==
    /\ main_updateStatus("error", <<"Save failed: ", reason>>)
    /\ timers' = timers + 1
    /\ tasks' = [tasks EXCEPT ![h] = Caught(@, reason)]
    /\ backend' = Overwritten(backend)

\* the save handler, resumed when saveSettings(settings) settles
main_save_written(h, ok) ==
    /\ tasks[h].kind = "save" /\ tasks[h].pc = "write"
    /\ IF ok
       THEN /\ file' = saveSettings(settings)
            /\ tasks' = [tasks EXCEPT ![h].pc = "setApiKey",
                                      ![h].text = Get(settings, KApiKey)]
            /\ UNCHANGED <<status, statusText, statusLog, timers, backend>>
       ELSE /\ main_save_catch(h, "WriteError")
            /\ UNCHANGED file
    /\ UNCHANGED <<settings, loaded, isRecording, currentShortcut, bindings,
                   recActive, clipboard, pasted, calls, listeners, events>>

\* the save handler, resumed when invoke('set_api_key') settles
main_save_apiKeySet(h, ok) ==
    /\ tasks[h].kind = "save" /\ tasks[h].pc = "setApiKey"
    /\ IF ~ok
       THEN main_save_catch(h, "BackendError")
       ELSE IF Truthy(Get(settings, KShortcut))
       THEN /\ tasks' = [tasks EXCEPT ![h].pc = "registerB",
                                      ![h].sc = Get(settings, KShortcut)]
            /\ backend' = [backend EXCEPT !.apiKey = tasks[h].text]
            /\ UNCHANGED <<status, statusText, statusLog, timers>>
       ELSE /\ main_updateStatus("success", <<"Settings saved!">>)
            /\ timers' = timers + 1
            /\ tasks' = [tasks EXCEPT ![h] = Done(@, "ok")]
            /\ backend' = [Overwritten(backend) EXCEPT !.apiKey = tasks[h].text]
    /\ UNCHANGED <<file, settings, loaded, isRecording, currentShortcut,
                   bindings, recActive, clipboard, pasted, calls, listeners,
                   events>>

InitBackend ==
    /\ file \in InitialFiles
    /\ settings = <<>>
    /\ loaded = FALSE
    /\ isRecording = FALSE
    /\ currentShortcut = {}
    /\ bindings = {}
    /\ recActive = FALSE
    /\ status = "initial"
    /\ statusText = <<>>
    /\ statusLog = <<>>
    /\ timers = 0
    /\ tasks = <<Task("init", "load")>>
    /\ clipboard = <<>>
    /\ pasted = <<>>
    /\ calls = NoCalls
    /\ listeners = 0
    /\ events = <<>>
    /\ backend = NoBackend

NextBackend ==
    \/ \E h \in Suspended("load") : main_init_loaded(h)
    \/ \E h \in Suspended("setApiKey"), ok \in BOOLEAN : main_init_apiKeySet(h, ok)
    \/ \E h \in Suspended("registerB"), ok \in BOOLEAN :
           registerShortcutInBackend_settled(h, ok)
    \/ \E h \in Suspended("listen") : main_init_listening(h)
    \/ \E payload \in StatusPayloads : statusChanged(payload)
    \/ main_resetTimer
    \/ main_setShortcutClick
    \/ \E e \in main_KeyEvents : main_handleKeyDown(e)
    \/ \E input \in ApiKeyInputs : main_saveClick(input)
    \/ \E h \in Suspended("write"), ok \in BOOLEAN : main_save_written(h, ok)
    \/ \E h \in Suspended("setApiKey"), ok \in BOOLEAN : main_save_apiKeySet(h, ok)

SpecBackend == InitBackend /\ [][NextBackend]_vars

\* C19: once the 'status-changed' listener is installed, a reset timer that
\* was scheduled before the latest backend status event does not overwrite
\* the status that event delivered.
C19_TimerKeepsBackendStatus ==
    [][(main_resetTimer /\ backend.listening /\ backend.shown
          /\ backend.stale > 0) =>
         (status' = status /\ statusText' = statusText)]_vars

====
